---- MODULE Spec2Model ----
(***************************************************************************)
(* A model of src/vector.h: RawMemory<T> (an owned block of raw storage)   *)
(* and Vector<T> (a RawMemory plus the number of live elements).           *)
(*                                                                         *)
(* The heap is a finite set of blocks; a block is a sequence of slots and  *)
(* a slot is either Dead (raw, unconstructed storage) or holds a value of  *)
(* T.  Every public operation of Vector is one action.  An operation runs  *)
(* on a "machine" record m that threads the heap, the vectors, the         *)
(* exception in flight and the counts of element constructions and         *)
(* destructions through the statements of the method, in source order.     *)
(*                                                                         *)
(* The element type T is a parameter of the template: the two traits the   *)
(* code branches on (vector.h:147) are the variable traits.  A moved-from  *)
(* element is left holding Moved (as std::string or a smart pointer        *)
(* would); a copy leaves its source alone.  Copy construction, copy        *)
(* assignment and value construction may throw; move construction and move *)
(* assignment may throw unless T is nothrow-movable; destructors never     *)
(* throw.  Any one of the fallible element calls an operation makes may be *)
(* the one that throws: t is its ordinal (0: none does).                   *)
(***************************************************************************)
EXTENDS Integers, Sequences, FiniteSets, TLC

\* ---------------------------------------------------------------- bounds
NVec == 2
MaxVal == 1
MaxArg == 3
MaxHeapOne == 6
MaxHeapTwo == 4
MaxHeapStrong == 5
MaxHeapAppend == 15

VecIds == 1..NVec
NBlocks == NVec + 1
BlockIds == 1..NBlocks
Values == 0..MaxVal
Dead == 0 - 1
Moved == 0
DefaultVal == 0
Offsets == 0..MaxHeapOne
Sizes == 0..MaxArg

VARIABLES
  traits,    \* [nothrowMove, copyable]: the traits of T read at vector.h:147
  vec,       \* vec[v] = [alive, data_ : [buffer_, capacity_], size_]
  heap,      \* heap[b]: the slots of block b; <<>> when b is not allocated
  limit,     \* the number of slots the allocator can hand out in all
  objects,   \* the Vector objects the program declares
  appends,   \* the number of PushBack calls that have returned
  last       \* the operation that produced this state, and what it did

vars == <<traits, vec, heap, limit, objects, appends, last>>

\* ------------------------------------------------------------- RawMemory
\* RawMemory() = default: buffer_ = nullptr (block 0), capacity_ = 0.
EmptyRaw == [buffer_ |-> 0, capacity_ |-> 0]

\* A Vector that does not exist (before construction, after destruction).
NoVector == [alive |-> FALSE, data_ |-> EmptyRaw, size_ |-> 0]

\* Vector() = default.
DefaultVector == [alive |-> TRUE, data_ |-> EmptyRaw, size_ |-> 0]

RECURSIVE SumLen(_, _)
SumLen(h, S) ==
  IF S = {} THEN 0
  ELSE LET b == CHOOSE x \in S : TRUE IN Len(h[b]) + SumLen(h, S \ {b})

HeapUsed(h) == SumLen(h, BlockIds)

FreeBlocks(h) == {b \in BlockIds : h[b] = <<>>}

MinOf(S) == CHOOSE x \in S : \A y \in S : x <= y

\* An iterator is a block and an offset into it; NoIter: nothing returned.
NoIter == <<0, 0>>

\* The machine at the start of an operation.  t: which fallible element call
\* throws; g: the values that reads of uninitialized slots yield, by offset;
\* steps: the steps of the member function entered so far, in order; moves,
\* copies: the elements constructed by T(T &&) and by T(const T &) from
\* elements of a block.
\* m.vec[0] is the slot of a temporary Vector local to an operation.
Machine(t, g) ==
  [heap |-> heap, vec |-> [v \in 0..NVec |-> IF v = 0 THEN NoVector ELSE vec[v]],
   t |-> t, g |-> g, calls |-> 0, exc |-> "none", phase |-> "start", blk |-> 0,
   ret |-> NoIter, ctor |-> 0, dtor |-> 0, alloc |-> 0, free |-> 0, err |-> {},
   steps |-> <<>>, moves |-> 0, copies |-> 0]

Ok(m) == m.exc = "none"

AtPhase(m, p) == [m EXCEPT !.phase = p, !.steps = Append(@, p)]

AddErr(m, e) == [m EXCEPT !.err = @ \cup e]

\* RawMemory::Allocate: nullptr for n = 0, else operator new, which throws
\* std::bad_alloc when the heap cannot satisfy the request.  m.blk is the block.
Allocate(m, n) ==
  IF n = 0 THEN [m EXCEPT !.blk = 0]
  ELSE IF HeapUsed(m.heap) + n > limit \/ FreeBlocks(m.heap) = {}
       THEN [m EXCEPT !.exc = "alloc"]
       ELSE LET b == MinOf(FreeBlocks(m.heap))
            IN [m EXCEPT !.heap[b] = [k \in 1..n |-> Dead],
                         !.alloc = @ + 1, !.blk = b]

\* RawMemory::Deallocate: operator delete; releases the block without
\* destroying anything ("orphan": a live element was still in it).
Deallocate(m, b) ==
  IF b = 0 THEN m
  ELSE IF m.heap[b] = <<>> THEN AddErr(m, {"double_free"})
  ELSE [m EXCEPT !.heap[b] = <<>>, !.free = @ + 1,
                 !.err = @ \cup (IF \E k \in DOMAIN m.heap[b] : m.heap[b][k] # Dead
                                 THEN {"orphan"} ELSE {})]

\* RawMemory::Swap
RawSwap(m, v, w) ==
  [m EXCEPT !.vec[v].data_ = m.vec[w].data_, !.vec[w].data_ = m.vec[v].data_]

\* ------------------------------------------------------ element lifetime
InBlock(m, b, off) == b \in BlockIds /\ off >= 0 /\ off < Len(m.heap[b])

IsLive(m, b, off) == InBlock(m, b, off) /\ m.heap[b][off + 1] # Dead

\* The value a read of slot off of block b yields: the element, or, for a
\* slot holding no element, whatever the storage happens to hold.
ReadVal(m, b, off) ==
  IF IsLive(m, b, off) THEN m.heap[b][off + 1]
  ELSE IF off \in DOMAIN m.g THEN m.g[off] ELSE DefaultVal

ReadErr(m, b, off) == IF IsLive(m, b, off) THEN {} ELSE {"uninit_read"}

\* One fallible call of T's code: it is the m.t-th one that throws.
Tick(m, fallible) ==
  IF fallible
  THEN [m EXCEPT !.calls = @ + 1, !.exc = IF m.calls + 1 = m.t THEN "elem" ELSE @]
  ELSE m

\* new (p) T(val): an element comes to life in a slot.
ConstructAt(m, b, off, val) ==
  IF ~InBlock(m, b, off) THEN AddErr(m, {"out_of_bounds"})
  ELSE [m EXCEPT !.heap[b][off + 1] = val, !.ctor = @ + 1,
                 !.err = @ \cup (IF m.heap[b][off + 1] # Dead
                                 THEN {"construct_over_live"} ELSE {})]

\* p->~T()
DestroyAt(m, b, off) ==
  IF ~InBlock(m, b, off) THEN AddErr(m, {"out_of_bounds"})
  ELSE [m EXCEPT !.heap[b][off + 1] = Dead, !.dtor = @ + 1,
                 !.err = @ \cup (IF m.heap[b][off + 1] = Dead
                                 THEN {"destroy_dead"} ELSE {})]

\* std::destroy_n(first, n)
RECURSIVE DestroyN(_, _, _, _)
DestroyN(m, b, first, n) ==
  IF n <= 0 THEN m ELSE DestroyN(DestroyAt(m, b, first), b, first + 1, n - 1)

\* Overwrite a live element (the effect of an assignment that did not throw).
StoreAt(m, b, off, val) ==
  IF ~InBlock(m, b, off) THEN AddErr(m, {"out_of_bounds"})
  ELSE [m EXCEPT !.heap[b][off + 1] = val,
                 !.err = @ \cup (IF m.heap[b][off + 1] = Dead
                                 THEN {"assign_to_dead"} ELSE {})]

\* The source of a move is left in its moved-from state.
LeaveMoved(m, b, off) ==
  IF IsLive(m, b, off) THEN [m EXCEPT !.heap[b][off + 1] = Moved] ELSE m

\* new (dst) T(*src)
CopyConstruct(m, sb, soff, db, doff) ==
  LET m1 == Tick(m, TRUE)
  IN IF ~Ok(m1) THEN m1
     ELSE ConstructAt([AddErr(m1, ReadErr(m, sb, soff)) EXCEPT !.copies = @ + 1],
                      db, doff, ReadVal(m, sb, soff))

\* new (dst) T(std::move(*src))
MoveConstruct(m, sb, soff, db, doff) ==
  LET m1 == Tick(m, ~traits.nothrowMove)
  IN IF ~Ok(m1) THEN m1
     ELSE LeaveMoved(ConstructAt([AddErr(m1, ReadErr(m, sb, soff)) EXCEPT !.moves = @ + 1],
                                 db, doff, ReadVal(m, sb, soff)), sb, soff)

\* *dst = *src
CopyAssign(m, sb, soff, db, doff) ==
  LET m1 == Tick(m, TRUE)
  IN IF ~Ok(m1) THEN m1
     ELSE StoreAt(AddErr(m1, ReadErr(m, sb, soff)), db, doff, ReadVal(m, sb, soff))

\* *dst = std::move(*src)
MoveAssign(m, sb, soff, db, doff) ==
  LET m1 == Tick(m, ~traits.nothrowMove)
  IN IF ~Ok(m1) THEN m1
     ELSE LeaveMoved(StoreAt(AddErr(m1, ReadErr(m, sb, soff)), db, doff,
                             ReadVal(m, sb, soff)), sb, soff)

\* std::uninitialized_copy_n / std::uninitialized_move_n (mv): construct count
\* elements at dfirst from those at sfirst; when a construction throws, the
\* elements already constructed by this call are destroyed and it rethrows.
RECURSIVE UninitializedN(_, _, _, _, _, _, _, _)
UninitializedN(m, sb, sfirst, count, db, dfirst, k, mv) ==
  IF k >= count THEN m
  ELSE LET m1 == IF mv THEN MoveConstruct(m, sb, sfirst + k, db, dfirst + k)
                       ELSE CopyConstruct(m, sb, sfirst + k, db, dfirst + k)
       IN IF ~Ok(m1) THEN DestroyN(m1, db, dfirst, k)
          ELSE UninitializedN(m1, sb, sfirst, count, db, dfirst, k + 1, mv)

UninitializedCopyN(m, sb, sfirst, count, db, dfirst) ==
  UninitializedN(m, sb, sfirst, count, db, dfirst, 0, FALSE)

UninitializedMoveN(m, sb, sfirst, count, db, dfirst) ==
  UninitializedN(m, sb, sfirst, count, db, dfirst, 0, TRUE)

\* std::uninitialized_value_construct_n(first, n): T() in each slot, with the
\* same all-or-nothing clean-up.
RECURSIVE ValueConstructLoop(_, _, _, _, _)
ValueConstructLoop(m, b, first, n, k) ==
  IF k >= n THEN m
  ELSE LET m1 == Tick(m, TRUE)
       IN IF ~Ok(m1) THEN DestroyN(m1, b, first, k)
          ELSE ValueConstructLoop(ConstructAt(m1, b, first + k, DefaultVal),
                                  b, first, n, k + 1)

UninitializedValueConstructN(m, b, first, n) == ValueConstructLoop(m, b, first, n, 0)

\* std::copy / std::copy_n: copy-assign count elements front to back; a throw
\* stops the loop where it is.
RECURSIVE CopyN(_, _, _, _, _, _)
CopyN(m, sb, sfirst, count, db, dfirst) ==
  IF count <= 0 THEN m
  ELSE LET m1 == CopyAssign(m, sb, sfirst, db, dfirst)
       IN IF ~Ok(m1) THEN m1
          ELSE CopyN(m1, sb, sfirst + 1, count - 1, db, dfirst + 1)

\* std::move(first, last, d_first) within block b: move-assign front to back.
RECURSIVE MoveRange(_, _, _, _, _)
MoveRange(m, b, first, lst, dfirst) ==
  IF first >= lst THEN m
  ELSE LET m1 == MoveAssign(m, b, first, b, dfirst)
       IN IF ~Ok(m1) THEN m1 ELSE MoveRange(m1, b, first + 1, lst, dfirst + 1)

\* A variant of the shift that runs front to back (std::move where the code
\* has std::move_backward), which overwrites elements before moving them.
MoveFrontToBack(m, b, first, lst, dlast) ==
  MoveRange(m, b, first, lst, dlast - (lst - first))

\* std::move_backward(first, last, d_last) within block b: back to front.
RECURSIVE MoveBackward(_, _, _, _, _)
MoveBackward(m, b, first, lst, dlast) ==
  IF first >= lst THEN m
  ELSE LET m1 == MoveAssign(m, b, lst - 1, b, dlast - 1)
       IN IF ~Ok(m1) THEN m1 ELSE MoveBackward(m1, b, first, lst - 1, dlast - 1)

\* ---------------------------------------------------------------- Vector
Buf(m, v) == m.vec[v].data_.buffer_

Cap(m, v) == m.vec[v].data_.capacity_

Size(m, v) == m.vec[v].size_

Raw(b, c) == [buffer_ |-> b, capacity_ |-> c]

\* Vector(size_t size)
SizeCtorOp(m, v, size) ==
  LET m1 == Allocate(AtPhase(m, "alloc"), size)
      b  == m1.blk
      m2 == UninitializedValueConstructN(AtPhase(m1, "construct"), b, 0, size)
  IN IF ~Ok(m1) THEN m1
     ELSE IF ~Ok(m2) THEN Deallocate(m2, b)
     ELSE [m2 EXCEPT !.vec[v] = [alive |-> TRUE, data_ |-> Raw(b, size), size_ |-> size],
                     !.phase = "done"]

\* A variant of the destructor that destroys the elements and keeps the block
\* allocated.
DtorLeaksBlock(m, v) ==
  [DestroyN(m, Buf(m, v), 0, Size(m, v)) EXCEPT !.vec[v] = NoVector, !.phase = "done"]

\* ~Vector()
DtorOp(m, v) ==
  LET m1 == DestroyN(m, Buf(m, v), 0, Size(m, v))
  IN [Deallocate(m1, Buf(m, v)) EXCEPT !.vec[v] = NoVector, !.phase = "done"]

\* A variant of the copy constructor that copies the fields and not the
\* elements, so that both Vectors hold one block.
CopyCtorShallow(m, v, o) ==
  [m EXCEPT !.vec[v] = [alive |-> TRUE, data_ |-> m.vec[o].data_, size_ |-> m.vec[o].size_],
            !.phase = "done"]

\* Vector(const Vector &other)
CopyCtorOp(m, v, o) ==
  LET n  == Size(m, o)
      m1 == Allocate(AtPhase(m, "alloc"), n)
      b  == m1.blk
      m2 == UninitializedCopyN(AtPhase(m1, "construct"), Buf(m, o), 0, n, b, 0)
  IN IF ~Ok(m1) THEN m1
     ELSE IF ~Ok(m2) THEN Deallocate(m2, b)
     ELSE [m2 EXCEPT !.vec[v] = [alive |-> TRUE, data_ |-> Raw(b, n), size_ |-> n],
                     !.phase = "done"]

\* Vector::Swap
SwapOp(m, v, w) ==
  [RawSwap(m, v, w) EXCEPT !.vec[v].size_ = m.vec[w].size_,
                           !.vec[w].size_ = m.vec[v].size_, !.phase = "done"]

\* A variant of the move constructor that leaves the source what it held and
\* gives the new Vector a copy.
MoveCtorCopies(m, v, o) == CopyCtorOp(m, v, o)

\* Vector(Vector &&other): the new Vector starts default-initialised.
MoveCtorOp(m, v, o) == SwapOp([m EXCEPT !.vec[v] = DefaultVector], v, o)

\* A variant of the move assignment that swaps data_ and forgets size_.
MoveAssignDataOnly(m, v, o) == AtPhase(RawSwap(m, v, o), "done")

\* Vector &operator=(Vector &&rhs)
MoveAssignOp(m, v, o) == SwapOp(m, v, o)

\* Vector &operator=(const Vector &rhs)
CopyAssignOp(m, v, o) ==
  IF v = o THEN AtPhase(m, "done")
  ELSE IF Size(m, o) > Cap(m, v)
  THEN LET m1 == CopyCtorOp(m, 0, o)
       IN IF ~Ok(m1) THEN m1 ELSE AtPhase(DtorOp(SwapOp(m1, v, 0), 0), "done")
  ELSE IF Size(m, o) < Size(m, v)
  THEN LET m1 == CopyN(AtPhase(m, "assign"), Buf(m, o), 0, Size(m, o), Buf(m, v), 0)
           m2 == DestroyN(m1, Buf(m, v), Size(m, o), Size(m, v) - Size(m, o))
       IN IF ~Ok(m1) THEN m1
          ELSE [m2 EXCEPT !.vec[v].size_ = Size(m, o), !.phase = "done"]
  ELSE LET m1 == CopyN(AtPhase(m, "assign"), Buf(m, o), 0, Size(m, v), Buf(m, v), 0)
           m2 == UninitializedCopyN(AtPhase(m1, "construct"), Buf(m, v), Size(m, v),
                                    Size(m, o) - Size(m, v), Buf(m, v), Size(m, v))
       IN IF ~Ok(m1) THEN m1
          ELSE IF ~Ok(m2) THEN m2
          ELSE [m2 EXCEPT !.vec[v].size_ = Size(m, o), !.phase = "done"]

\* A variant of the relocation that moves whatever T is.
AlwaysMoveNElements(m, sb, first, count, db, dfirst) ==
  UninitializedMoveN(m, sb, first, count, db, dfirst)

\* A variant of the relocation that moves only when T is both nothrow-movable
\* and not copyable (&& where the code has ||).
CopyMoveNElementsAnd(m, sb, first, count, db, dfirst) ==
  IF traits.nothrowMove /\ ~traits.copyable
  THEN UninitializedMoveN(m, sb, first, count, db, dfirst)
  ELSE UninitializedCopyN(m, sb, first, count, db, dfirst)

\* Vector::CopyMoveNElements
CopyMoveNElements(m, sb, first, count, db, dfirst) ==
  IF traits.nothrowMove \/ ~traits.copyable
  THEN UninitializedMoveN(m, sb, first, count, db, dfirst)
  ELSE UninitializedCopyN(m, sb, first, count, db, dfirst)

\* A variant of Reserve that releases the old block without destroying the
\* elements in it.
ReserveNoDestroy(m, v, new_capacity) ==
  IF new_capacity <= Cap(m, v) THEN AtPhase(m, "done")
  ELSE LET m1 == Allocate(AtPhase(m, "alloc"), new_capacity)
           nb == m1.blk
           m2 == CopyMoveNElements(AtPhase(m1, "relocate"), Buf(m, v), 0, Size(m, v), nb, 0)
           m4 == [m2 EXCEPT !.vec[v].data_ = Raw(nb, new_capacity)]
       IN IF ~Ok(m1) THEN m1
          ELSE IF ~Ok(m2) THEN Deallocate(m2, nb)
          ELSE AtPhase(Deallocate(m4, Buf(m, v)), "done")

\* A variant of Reserve that destroys the old elements also when the
\* relocation has failed.
ReserveDestroysOnFailure(m, v, new_capacity) ==
  IF new_capacity <= Cap(m, v) THEN AtPhase(m, "done")
  ELSE LET m1 == Allocate(AtPhase(m, "alloc"), new_capacity)
           nb == m1.blk
           m2 == CopyMoveNElements(AtPhase(m1, "relocate"), Buf(m, v), 0, Size(m, v), nb, 0)
           m3 == DestroyN(m2, Buf(m, v), 0, Size(m, v))
           m4 == [m3 EXCEPT !.vec[v].data_ = Raw(nb, new_capacity)]
       IN IF ~Ok(m1) THEN m1
          ELSE IF ~Ok(m2) THEN Deallocate(DestroyN(m2, Buf(m, v), 0, Size(m, v)), nb)
          ELSE AtPhase(Deallocate(m4, Buf(m, v)), "done")

\* Vector::Reserve
ReserveOp(m, v, new_capacity) ==
  IF new_capacity <= Cap(m, v) THEN AtPhase(m, "done")
  ELSE LET m1 == Allocate(AtPhase(m, "alloc"), new_capacity)
           nb == m1.blk
           m2 == CopyMoveNElements(AtPhase(m1, "relocate"), Buf(m, v), 0, Size(m, v), nb, 0)
           m3 == DestroyN(m2, Buf(m, v), 0, Size(m, v))
           m4 == [m3 EXCEPT !.vec[v].data_ = Raw(nb, new_capacity)]
       IN IF ~Ok(m1) THEN m1
          ELSE IF ~Ok(m2) THEN Deallocate(m2, nb)
          ELSE AtPhase(Deallocate(m4, Buf(m, v)), "done")

\* A variant of Resize that shortens the Vector without destroying the
\* elements it drops.
ResizeKeepsTail(m, v, new_size) ==
  IF Size(m, v) = new_size THEN AtPhase(m, "done")
  ELSE IF new_size < Size(m, v)
  THEN [m EXCEPT !.vec[v].size_ = new_size, !.phase = "done"]
  ELSE LET m1 == ReserveOp(m, v, new_size)
           m2 == UninitializedValueConstructN(AtPhase(m1, "construct"), Buf(m1, v),
                                              Size(m, v), new_size - Size(m, v))
       IN IF ~Ok(m1) THEN m1
          ELSE IF ~Ok(m2) THEN m2
          ELSE [m2 EXCEPT !.vec[v].size_ = new_size, !.phase = "done"]

\* A variant of Resize that sets size_ before it reserves.
ResizeSetsSizeFirst(m, v, new_size) ==
  IF Size(m, v) = new_size THEN AtPhase(m, "done")
  ELSE IF new_size < Size(m, v)
  THEN [DestroyN(m, Buf(m, v), new_size, Size(m, v) - new_size)
          EXCEPT !.vec[v].size_ = new_size, !.phase = "done"]
  ELSE LET m1 == ReserveOp([m EXCEPT !.vec[v].size_ = new_size], v, new_size)
           m2 == UninitializedValueConstructN(AtPhase(m1, "construct"), Buf(m1, v),
                                              Size(m, v), new_size - Size(m, v))
       IN IF ~Ok(m1) THEN m1
          ELSE IF ~Ok(m2) THEN m2
          ELSE AtPhase(m2, "done")

\* Vector::Resize
ResizeOp(m, v, new_size) ==
  IF Size(m, v) = new_size THEN AtPhase(m, "done")
  ELSE IF new_size < Size(m, v)
  THEN [DestroyN(m, Buf(m, v), new_size, Size(m, v) - new_size)
          EXCEPT !.vec[v].size_ = new_size, !.phase = "done"]
  ELSE LET m1 == ReserveOp(m, v, new_size)
           m2 == UninitializedValueConstructN(AtPhase(m1, "construct"), Buf(m1, v),
                                              Size(m, v), new_size - Size(m, v))
       IN IF ~Ok(m1) THEN m1
          ELSE IF ~Ok(m2) THEN m2
          ELSE [m2 EXCEPT !.vec[v].size_ = new_size, !.phase = "done"]

\* T constructed from the caller's argument: a copy for a copyable T
\* (const T &), a move of the caller's temporary otherwise (T &&).
ArgFallible == traits.copyable \/ ~traits.nothrowMove

\* The argument Emplace forwards: a reference to a T of the caller's that
\* holds x, or a reference to the element at index k of the Vector itself.
Value(x) == [ref |-> FALSE, val |-> x]

SelfRef(k) == [ref |-> TRUE, at |-> k]

\* What T{std::forward<Args>(args)...} reads when it runs in state m.
ArgValue(m, v, args) ==
  IF args.ref THEN ReadVal(m, Buf(m, v), args.at) ELSE args.val

ArgErr(m, v, args) == IF args.ref THEN ReadErr(m, Buf(m, v), args.at) ELSE {}

\* A variant of the growth that makes room for one more element only.
NewCapacityPlusOne(size) == size + 1

\* const size_t new_capacity = size_ == 0 ? 1 : size_ * 2;
NewCapacity(size) == IF size = 0 THEN 1 ELSE size * 2

\* A variant of the growing branch that relocates the elements before the
\* insertion point first and constructs the new element after them.
EmplaceGrowRelocatesFirst(m, v, offset, args) ==
  LET size == Size(m, v)
      ob   == Buf(m, v)
      new_capacity == NewCapacity(size)
      m1 == Allocate(AtPhase(m, "alloc"), new_capacity)
      nb == m1.blk
      m2 == CopyMoveNElements(AtPhase(m1, "prefix"), ob, 0, offset, nb, 0)
      m3 == LET c == Tick(AtPhase(m2, "new"), ArgFallible)
            IN IF ~Ok(c) THEN c
               ELSE ConstructAt(AddErr(c, ArgErr(c, v, args)), nb, offset,
                                ArgValue(c, v, args))
      m4 == IF offset # size
            THEN CopyMoveNElements(AtPhase(m3, "suffix"), ob, offset, size - offset,
                                   nb, offset + 1)
            ELSE m3
      m5 == DestroyN(AtPhase(m4, "destroy"), ob, 0, size)
      m6 == Deallocate([AtPhase(m5, "adopt") EXCEPT !.vec[v].data_ = Raw(nb, new_capacity)], ob)
  IN IF ~Ok(m1) THEN m1
     ELSE IF ~Ok(m2) THEN Deallocate(m2, nb)
     ELSE IF ~Ok(m3) THEN Deallocate(DestroyN(m3, nb, 0, offset), nb)
     ELSE IF ~Ok(m4) THEN Deallocate(DestroyN(m4, nb, 0, offset + 1), nb)
     ELSE m6

\* A variant of the growing branch whose handler of a failed suffix
\* relocation destroys the relocated prefix and forgets the new element.
EmplaceGrowForgetsNew(m, v, offset, args) ==
  LET size == Size(m, v)
      ob   == Buf(m, v)
      new_capacity == NewCapacity(size)
      m1 == Allocate(AtPhase(m, "alloc"), new_capacity)
      nb == m1.blk
      m2 == LET c == Tick(AtPhase(m1, "new"), ArgFallible)
            IN IF ~Ok(c) THEN c
               ELSE ConstructAt(AddErr(c, ArgErr(c, v, args)), nb, offset,
                                ArgValue(c, v, args))
      m3 == CopyMoveNElements(AtPhase(m2, "prefix"), ob, 0, offset, nb, 0)
      m4 == IF offset # size
            THEN CopyMoveNElements(AtPhase(m3, "suffix"), ob, offset, size - offset,
                                   nb, offset + 1)
            ELSE m3
      m5 == DestroyN(AtPhase(m4, "destroy"), ob, 0, size)
      m6 == Deallocate([AtPhase(m5, "adopt") EXCEPT !.vec[v].data_ = Raw(nb, new_capacity)], ob)
  IN IF ~Ok(m1) THEN m1
     ELSE IF ~Ok(m2) THEN Deallocate(m2, nb)
     ELSE IF ~Ok(m3) THEN Deallocate(DestroyAt(m3, nb, offset), nb)
     ELSE IF ~Ok(m4) THEN Deallocate(DestroyN(m4, nb, 0, offset), nb)
     ELSE m6

\* The growing branch of Vector::Emplace (size_ == Capacity()).
EmplaceGrow(m, v, offset, args) ==
  LET size == Size(m, v)
      ob   == Buf(m, v)
      new_capacity == NewCapacity(size)
      m1 == Allocate(AtPhase(m, "alloc"), new_capacity)
      nb == m1.blk
      m2 == LET c == Tick(AtPhase(m1, "new"), ArgFallible)
            IN IF ~Ok(c) THEN c
               ELSE ConstructAt(AddErr(c, ArgErr(c, v, args)), nb, offset,
                                ArgValue(c, v, args))
      m3 == CopyMoveNElements(AtPhase(m2, "prefix"), ob, 0, offset, nb, 0)
      m4 == IF offset # size
            THEN CopyMoveNElements(AtPhase(m3, "suffix"), ob, offset, size - offset,
                                   nb, offset + 1)
            ELSE m3
      m5 == DestroyN(AtPhase(m4, "destroy"), ob, 0, size)
      m6 == Deallocate([AtPhase(m5, "adopt") EXCEPT !.vec[v].data_ = Raw(nb, new_capacity)], ob)
  IN IF ~Ok(m1) THEN m1
     ELSE IF ~Ok(m2) THEN Deallocate(m2, nb)
     ELSE IF ~Ok(m3) THEN Deallocate(DestroyAt(m3, nb, offset), nb)
     ELSE IF ~Ok(m4) THEN Deallocate(DestroyN(m4, nb, 0, offset + 1), nb)
     ELSE m6

\* A variant of the in-place branch without the temporary: the argument is
\* read when it is assigned to data_[offset], after the shift.
EmplaceInPlaceNoTemporary(m, v, offset, args) ==
  LET size == Size(m, v)
      b    == Buf(m, v)
  IN IF offset = size
     THEN LET c == Tick(AtPhase(m, "new"), ArgFallible)
          IN IF ~Ok(c) THEN c
             ELSE ConstructAt(AddErr(c, ArgErr(c, v, args)), b, size, ArgValue(c, v, args))
     ELSE LET m2 == MoveConstruct(AtPhase(m, "last"), b, size - 1, b, size)
              m3 == MoveBackward(AtPhase(m2, "shift"), b, offset, size - 1, size)
              m4 == Tick(AtPhase(m3, "store"), ArgFallible)
          IN IF ~Ok(m2) THEN m2
             ELSE IF ~Ok(m3) THEN m3
             ELSE IF ~Ok(m4) THEN m4
             ELSE StoreAt(AddErr(m4, ArgErr(m4, v, args)), b, offset, ArgValue(m4, v, args))

\* The in-place branch of Vector::Emplace (size_ < Capacity()).
EmplaceInPlace(m, v, offset, args) ==
  LET size == Size(m, v)
      b    == Buf(m, v)
  IN IF offset = size
     THEN LET c == Tick(AtPhase(m, "new"), ArgFallible)
          IN IF ~Ok(c) THEN c
             ELSE ConstructAt(AddErr(c, ArgErr(c, v, args)), b, size, ArgValue(c, v, args))
     ELSE LET m0 == Tick(AtPhase(m, "new"), ArgFallible)
              t  == ArgValue(m0, v, args)
              m1 == AddErr(m0, ArgErr(m0, v, args))
              m2 == MoveConstruct(AtPhase(m1, "last"), b, size - 1, b, size)
              m3 == MoveBackward(AtPhase(m2, "shift"), b, offset, size - 1, size)
              m4 == Tick(AtPhase(m3, "store"), ~traits.nothrowMove)
          IN IF ~Ok(m1) THEN m1
             ELSE IF ~Ok(m2) THEN m2
             ELSE IF ~Ok(m3) THEN m3
             ELSE IF ~Ok(m4) THEN m4
             ELSE StoreAt(m4, b, offset, t)

\* A variant of Emplace that takes a new block whether the Vector is full or
\* not.
EmplaceAlwaysGrows(m, v, offset, args) ==
  LET m1 == EmplaceGrow(m, v, offset, args)
  IN IF ~Ok(m1) THEN m1
     ELSE [m1 EXCEPT !.vec[v].size_ = @ + 1, !.ret = <<Buf(m1, v), offset>>,
                     !.phase = "done"]

\* Vector::Emplace
EmplaceOp(m, v, offset, args) ==
  LET m1 == IF Size(m, v) = Cap(m, v) THEN EmplaceGrow(m, v, offset, args)
            ELSE EmplaceInPlace(m, v, offset, args)
  IN IF ~Ok(m1) THEN m1
     ELSE [m1 EXCEPT !.vec[v].size_ = @ + 1, !.ret = <<Buf(m1, v), offset>>,
                     !.phase = "done"]

\* A variant of Erase that destroys the last element without moving the tail.
EraseNoShift(m, v, offset) ==
  [DestroyAt(m, Buf(m, v), Size(m, v) - 1)
     EXCEPT !.vec[v].size_ = @ - 1, !.ret = <<Buf(m, v), offset>>, !.phase = "done"]

\* Vector::Erase
EraseOp(m, v, offset) ==
  LET b  == Buf(m, v)
      m1 == MoveRange(AtPhase(m, "shift"), b, offset + 1, Size(m, v), offset)
      element_to_del == Size(m, v) - 1
  IN IF ~Ok(m1) THEN m1
     ELSE [DestroyAt(m1, b, element_to_del)
             EXCEPT !.vec[v].size_ = @ - 1, !.ret = <<b, offset>>, !.phase = "done"]

\* A variant of PopBack that destroys the last element and keeps size_.
PopBackKeepsSize(m, v) ==
  [DestroyAt(m, Buf(m, v), Size(m, v) - 1) EXCEPT !.phase = "done"]

\* Vector::PopBack
PopBackOp(m, v) ==
  [DestroyAt(m, Buf(m, v), Size(m, v) - 1) EXCEPT !.vec[v].size_ = @ - 1, !.phase = "done"]

\* v[index] = x through the reference Vector::operator[] returns.
SetAtOp(m, v, index, x) ==
  LET m1 == Tick(AtPhase(m, "assign"), ArgFallible)
  IN IF ~Ok(m1) THEN m1 ELSE AtPhase(StoreAt(m1, Buf(m, v), index, x), "done")

\* --------------------------------------------------------------- actions
\* The numbers that name the blocks stand for addresses, and only their
\* being equal or not means anything.  The state an operation leaves names
\* the blocks in a fixed way: the block of Vector v (of the first of its
\* owners, should it have several) is block v, and the blocks no Vector owns
\* take the remaining numbers in order.
Owners(m, b) == {w \in VecIds : m.vec[w].alive /\ m.vec[w].data_.buffer_ = b}

Owned(m) == {b \in BlockIds : Owners(m, b) # {}}

Renaming(m) ==
  LET owned == Owned(m)
      rest  == BlockIds \ {MinOf(Owners(m, c)) : c \in owned}
  IN [b \in 0..NBlocks |->
       IF b = 0 THEN 0
       ELSE IF b \in owned THEN MinOf(Owners(m, b))
       ELSE CHOOSE r \in rest : Cardinality({q \in rest : q < r})
                                  = Cardinality({c \in BlockIds \ owned : c < b})]

\* Where the block Vector w holds after the operation comes from: 0 for no
\* block, u for the block Vector u held before the operation, Fresh for a
\* block the operation allocated.
Fresh == NVec + 1

Origin(m, w) ==
  LET b == m.vec[w].data_.buffer_
  IN IF b = 0 THEN 0
     ELSE IF \E u \in VecIds : vec[u].alive /\ vec[u].data_.buffer_ = b
          THEN MinOf({u \in VecIds : vec[u].alive /\ vec[u].data_.buffer_ = b})
          ELSE Fresh

\* The state an operation leaves, and the record of what it did: op, the
\* Vector it was called on (v), its Vector argument (o, or 0), its index or
\* size argument (i), its element argument (x), the exception that left it
\* (exc) with the step that threw (phase), the iterator returned (ret), and
\* the numbers of elements constructed and destroyed in storage blocks and of
\* blocks allocated and released, the steps it entered, and the numbers of
\* elements it move- and copy-constructed from elements.  Of a call that
\* threw, the record keeps no index and no element argument.
Commit(done, op, v, o, i, x) ==
  \E m \in {done} : \E name \in {Renaming(m)} :
     /\ vec' = [w \in VecIds |-> [m.vec[w] EXCEPT !.data_.buffer_ = name[@]]]
     /\ heap' = [c \in BlockIds |-> m.heap[CHOOSE b \in BlockIds : name[b] = c]]
     /\ last' = [op |-> op, v |-> v, o |-> o, i |-> IF Ok(m) THEN i ELSE 0,
                 x |-> IF Ok(m) THEN x ELSE 0, exc |-> m.exc,
                 phase |-> m.phase, ret |-> <<name[m.ret[1]], m.ret[2]>>,
                 from |-> [w \in VecIds |-> Origin(m, w)],
                 ctor |-> m.ctor, dtor |-> m.dtor,
                 alloc |-> m.alloc, free |-> m.free, err |-> m.err,
                 steps |-> m.steps, moves |-> m.moves, copies |-> m.copies]
     /\ UNCHANGED <<traits, limit, objects>>

NoGarbage == <<>>

\* The runs of an operation: Run(t) is its run when its t-th fallible element
\* call throws.  Any of the calls the run without a throw makes may throw.
Outcomes(Run(_)) ==
  LET m0 == Run(0) IN {IF t = 0 THEN m0 ELSE Run(t) : t \in 0..m0.calls}

Alive(v) == vec[v].alive

Declared(v) == v \in objects

DefaultCtor(v) ==
  /\ Declared(v) /\ ~Alive(v)
  /\ Commit([Machine(0, NoGarbage) EXCEPT !.vec[v] = DefaultVector, !.phase = "done"],
            "Vector", v, 0, 0, 0)
  /\ UNCHANGED appends

SizeCtor(v, size) ==
  /\ Declared(v) /\ ~Alive(v)
  /\ \E m \in Outcomes(LAMBDA t : SizeCtorOp(Machine(t, NoGarbage), v, size)) :
       Commit(m, "VectorSize", v, 0, size, 0)
  /\ UNCHANGED appends

CopyCtor(v, o) ==
  /\ Declared(v) /\ ~Alive(v) /\ Alive(o) /\ traits.copyable
  /\ \E m \in Outcomes(LAMBDA t : CopyCtorOp(Machine(t, NoGarbage), v, o)) :
       Commit(m, "VectorCopy", v, o, 0, 0)
  /\ UNCHANGED appends

MoveCtor(v, o) ==
  /\ Declared(v) /\ ~Alive(v) /\ Alive(o)
  /\ Commit(MoveCtorOp(Machine(0, NoGarbage), v, o), "VectorMove", v, o, 0, 0)
  /\ UNCHANGED appends

Dtor(v) ==
  /\ Alive(v)
  /\ Commit(DtorOp(Machine(0, NoGarbage), v), "Dtor", v, 0, 0, 0)
  /\ UNCHANGED appends

\* The offsets of the target's own storage that operator= reads at
\* vector.h:128 while they hold no element.
GarbageOffsets(v, o) ==
  IF v # o /\ vec[o].size_ <= vec[v].data_.capacity_ /\ vec[o].size_ > vec[v].size_
  THEN vec[v].size_ .. (vec[o].size_ - 1) ELSE {}

CopyAssignment(v, o) ==
  /\ Alive(v) /\ Alive(o) /\ traits.copyable
  /\ \E g \in [GarbageOffsets(v, o) -> Values] :
       \E m \in Outcomes(LAMBDA t : CopyAssignOp(Machine(t, g), v, o)) :
         Commit(m, "CopyAssign", v, o, 0, 0)
  /\ UNCHANGED appends

MoveAssignment(v, o) ==
  /\ Alive(v) /\ Alive(o)
  /\ Commit(MoveAssignOp(Machine(0, NoGarbage), v, o), "MoveAssign", v, o, 0, 0)
  /\ UNCHANGED appends

Swap(v, o) ==
  /\ Alive(v) /\ Alive(o)
  /\ Commit(SwapOp(Machine(0, NoGarbage), v, o), "Swap", v, o, 0, 0)
  /\ UNCHANGED appends

Reserve(v, n) ==
  /\ Alive(v)
  /\ \E m \in Outcomes(LAMBDA t : ReserveOp(Machine(t, NoGarbage), v, n)) :
       Commit(m, "Reserve", v, 0, n, 0)
  /\ UNCHANGED appends

Resize(v, n) ==
  /\ Alive(v)
  /\ \E m \in Outcomes(LAMBDA t : ResizeOp(Machine(t, NoGarbage), v, n)) :
       Commit(m, "Resize", v, 0, n, 0)
  /\ UNCHANGED appends

\* PushBack / EmplaceBack: Emplace(end(), x)
PushBack(v, x) ==
  /\ Alive(v)
  /\ \E m \in Outcomes(LAMBDA t : EmplaceOp(Machine(t, NoGarbage), v, vec[v].size_, Value(x))) :
       Commit(m, "PushBack", v, 0, vec[v].size_, x)
  /\ UNCHANGED appends

\* PushBack on a Vector that has only been appended to since it was
\* default-constructed; appends counts the calls that returned.
CountedPushBack(v, x) ==
  /\ Alive(v)
  /\ \E m \in Outcomes(LAMBDA t : EmplaceOp(Machine(t, NoGarbage), v, vec[v].size_, Value(x))) :
       /\ Commit(m, "PushBack", v, 0, vec[v].size_, x)
       /\ appends' = IF Ok(m) THEN appends + 1 ELSE appends

\* Insert / Emplace at begin() + offset, offset in [0, size_]
Insert(v, offset, x) ==
  /\ Alive(v) /\ offset <= vec[v].size_
  /\ \E m \in Outcomes(LAMBDA t : EmplaceOp(Machine(t, NoGarbage), v, offset, Value(x))) :
       Commit(m, "Insert", v, 0, offset, x)
  /\ UNCHANGED appends

\* Insert(begin() + offset, (*this)[k]), and PushBack((*this)[k]) for
\* offset = size_: the const T & overloads, given an element of the Vector
\* itself.  The record keeps k as the element argument.
InsertSelf(v, offset, k) ==
  /\ Alive(v) /\ traits.copyable /\ offset <= vec[v].size_ /\ k < vec[v].size_
  /\ \E m \in Outcomes(LAMBDA t : EmplaceOp(Machine(t, NoGarbage), v, offset, SelfRef(k))) :
       Commit(m, "InsertSelf", v, 0, offset, k)
  /\ UNCHANGED appends

\* Erase at begin() + offset; the precondition is pos != end()
Erase(v, offset) ==
  /\ Alive(v) /\ offset < vec[v].size_
  /\ \E m \in Outcomes(LAMBDA t : EraseOp(Machine(t, NoGarbage), v, offset)) :
       Commit(m, "Erase", v, 0, offset, 0)
  /\ UNCHANGED appends

\* The precondition is size_ > 0
PopBack(v) ==
  /\ Alive(v) /\ vec[v].size_ > 0
  /\ Commit(PopBackOp(Machine(0, NoGarbage), v), "PopBack", v, 0, 0, 0)
  /\ UNCHANGED appends

\* The precondition is index < size_
SetAt(v, index, x) ==
  /\ Alive(v) /\ index < vec[v].size_
  /\ \E m \in Outcomes(LAMBDA t : SetAtOp(Machine(t, NoGarbage), v, index, x)) :
       Commit(m, "SetAt", v, 0, index, x)
  /\ UNCHANGED appends

\* The element types: T's move constructor is noexcept or not, T has a copy
\* constructor or not.  (A move-only T with a noexcept move takes the same
\* paths as a copyable one with a noexcept move.)
CopyableTypes == [nothrowMove : BOOLEAN, copyable : {TRUE}]

ElementTypes == CopyableTypes \cup {[nothrowMove |-> FALSE, copyable |-> FALSE]}

\* The programs: one Vector of any T that has the whole heap to itself, or
\* NVec Vectors, in a smaller heap, of a copyable T whose moves may throw
\* (the T for which the most element calls can fail; the operations that take
\* two Vectors do not read the traits of T).  The first Vector is default-
\* constructed.
WorldsOne == [objects : {{1}}, limit : {MaxHeapOne}, traits : ElementTypes]

WorldsTwo ==
  [objects : {VecIds}, limit : {MaxHeapTwo},
   traits : {[nothrowMove |-> FALSE, copyable |-> TRUE]}]

Start(w) ==
  /\ traits = w.traits
  /\ vec = [v \in VecIds |-> IF v = 1 THEN DefaultVector ELSE NoVector]
  /\ heap = [b \in BlockIds |-> <<>>]
  /\ limit = w.limit
  /\ objects = w.objects
  /\ appends = 0
  /\ last = [op |-> "Vector", v |-> 1, o |-> 0, i |-> 0, x |-> 0, exc |-> "none",
             phase |-> "done", ret |-> NoIter, from |-> [u \in VecIds |-> 0],
             ctor |-> 0, dtor |-> 0, alloc |-> 0, free |-> 0, err |-> {},
             steps |-> <<>>, moves |-> 0, copies |-> 0]

Init == \E w \in WorldsOne \cup WorldsTwo : Start(w)

\* The operations a program with a single Vector can call.
NextOne ==
  \/ \E v \in VecIds : DefaultCtor(v)
  \/ \E v \in VecIds, n \in Sizes : SizeCtor(v, n)
  \/ \E v \in VecIds : Dtor(v)
  \/ \E v \in VecIds, o \in VecIds : CopyAssignment(v, o)
  \/ \E v \in VecIds, o \in VecIds : MoveAssignment(v, o)
  \/ \E v \in VecIds, o \in VecIds : Swap(v, o)
  \/ \E v \in VecIds, n \in Sizes : Reserve(v, n)
  \/ \E v \in VecIds, n \in Sizes : Resize(v, n)
  \/ \E v \in VecIds, x \in Values : PushBack(v, x)
  \/ \E v \in VecIds, i \in Offsets, x \in Values : Insert(v, i, x)
  \/ \E v \in VecIds, i \in Offsets : Erase(v, i)
  \/ \E v \in VecIds : PopBack(v)
  \/ \E v \in VecIds, i \in Offsets, x \in Values : SetAt(v, i, x)

\* Those, and the construction of a Vector from another one.
Next ==
  \/ NextOne
  \/ \E v \in VecIds, o \in VecIds : CopyCtor(v, o)
  \/ \E v \in VecIds, o \in VecIds : MoveCtor(v, o)

\* Every program.
Spec == Init /\ [][Next]_vars

\* The programs with one Vector.
InitOne == \E w \in WorldsOne : Start(w)

SpecOne == InitOne /\ [][NextOne]_vars

\* The programs with NVec Vectors.
InitTwo == \E w \in WorldsTwo : Start(w)

SpecTwo == InitTwo /\ [][Next]_vars

\* One default-constructed Vector that is only appended to.
InitAppend == \E w \in [objects : {{1}}, limit : {MaxHeapAppend}, traits : ElementTypes] : Start(w)

NextAppend == \E x \in Values : CountedPushBack(1, x)

SpecAppend == InitAppend /\ [][NextAppend]_vars

\* The programs that reserve, append and copy-assign: one Vector of any T, or
\* NVec Vectors of a copyable T in a heap where a Vector that holds elements
\* can be assigned a longer one through a new block.
WorldsStrong ==
  WorldsOne \cup [objects : {VecIds}, limit : {MaxHeapStrong},
                  traits : {[nothrowMove |-> FALSE, copyable |-> TRUE]}]

InitStrong == \E w \in WorldsStrong : Start(w)

NextStrong ==
  \/ \E v \in VecIds, n \in Sizes : SizeCtor(v, n)
  \/ \E v \in VecIds, n \in Sizes : Reserve(v, n)
  \/ \E v \in VecIds, x \in Values : PushBack(v, x)
  \/ \E v \in VecIds, o \in VecIds : CopyAssignment(v, o)

SpecStrong == InitStrong /\ [][NextStrong]_vars

\* The programs with one Vector of a T of any of the four kinds the traits
\* of vector.h:147 tell apart.
AllTypes == [nothrowMove : BOOLEAN, copyable : BOOLEAN]

InitTypes == \E w \in [objects : {{1}}, limit : {MaxHeapOne}, traits : AllTypes] : Start(w)

SpecTypes == InitTypes /\ [][NextOne]_vars

\* The programs with one Vector that also insert the Vector's own elements.
NextSelf ==
  \/ NextOne
  \/ \E v \in VecIds, i \in Offsets, k \in Offsets : InsertSelf(v, i, k)

SpecSelf == InitOne /\ [][NextSelf]_vars

\* ------------------------------------------------------- what is claimed
\* The slots of the block a Vector owns, and the elements it holds.
SlotsOf(vc, hp, v) ==
  IF vc[v].data_.buffer_ \in BlockIds THEN hp[vc[v].data_.buffer_] ELSE <<>>

ContentOf(vc, hp, v) == [k \in 1..vc[v].size_ |-> SlotsOf(vc, hp, v)[k]]

Slots(v) == SlotsOf(vec, heap, v)

Content(v) == ContentOf(vec, heap, v)

\* The same, in the state an operation leaves.
SlotsAfter(v) == SlotsOf(vec', heap', v)

ContentAfter(v) == ContentOf(vec', heap', v)

Returned == last.exc = "none"

\* seq with x put in front of its element at offset i (0-based)
InsertAt(seq, i, x) ==
  [k \in 1..(Len(seq) + 1) |-> IF k <= i THEN seq[k] ELSE IF k = i + 1 THEN x ELSE seq[k - 1]]

\* seq without its element at offset i (0-based)
RemoveAt(seq, i) ==
  [k \in 1..(Len(seq) - 1) |-> IF k <= i THEN seq[k] ELSE seq[k + 1]]

\* Vector v holds, after the operation, the block it held before it.
SameBlock(v) == last'.from[v] = IF vec[v].data_.buffer_ = 0 THEN 0 ELSE v

\* The operation left Vector v as it was: size, capacity, block, slots.
Untouched(v) ==
  /\ vec'[v].size_ = vec[v].size_
  /\ vec'[v].data_.capacity_ = vec[v].data_.capacity_
  /\ SameBlock(v)
  /\ SlotsAfter(v) = Slots(v)

\* Vector v has, after the operation, what Vector u had before it: its block
\* with every slot as it was, its capacity and its size.
Took(v, u) ==
  /\ vec'[v].size_ = vec[u].size_
  /\ vec'[v].data_.capacity_ = vec[u].data_.capacity_
  /\ last'.from[v] = IF vec[u].data_.buffer_ = 0 THEN 0 ELSE u
  /\ SlotsAfter(v) = Slots(u)

\* The operation constructed and destroyed no element, allocated and
\* released no block.
NothingMade ==
  last'.ctor = 0 /\ last'.dtor = 0 /\ last'.alloc = 0 /\ last'.free = 0

\* Errors of element lifetime and block ownership an operation can commit.
LifetimeErrors ==
  {"destroy_dead", "construct_over_live", "assign_to_dead", "orphan", "double_free",
   "out_of_bounds"}

\* 0 <= size_ <= Capacity(), the block has Capacity() slots, exactly the
\* slots [0, size_) hold an element, and no block outside the Vectors holds one.
WellFormed ==
  /\ \A v \in VecIds : Alive(v) =>
        /\ 0 <= vec[v].size_ /\ vec[v].size_ <= vec[v].data_.capacity_
        /\ Len(Slots(v)) = vec[v].data_.capacity_
        /\ \A k \in 1..Len(Slots(v)) : (Slots(v)[k] # Dead) <=> (k <= vec[v].size_)
  /\ \A b \in BlockIds :
        (\A v \in VecIds : ~(Alive(v) /\ vec[v].data_.buffer_ = b)) =>
          \A k \in 1..Len(heap[b]) : heap[b][k] = Dead

\* C1: the Vectors start well formed, and every operation that returns from
\* a well-formed state leaves a well-formed state, destroys no element twice,
\* constructs none over a live one and releases no block that holds one.
C1_Invariant ==
  /\ WellFormed
  /\ [][(WellFormed /\ Returned') =>
          (WellFormed' /\ last'.err \cap LifetimeErrors = {})]_vars

\* C1 witness: an insertion in the middle of a full Vector of two elements
\* has returned, leaving it well formed with spare capacity.
C1_Witness ==
  /\ WellFormed /\ Returned /\ last.op = "Insert" /\ last.i = 1
  /\ vec[last.v].size_ = 3 /\ vec[last.v].data_.capacity_ = 4

RECURSIVE Pow2Ceil(_, _)
Pow2Ceil(n, p) == IF p >= n THEN p ELSE Pow2Ceil(n, 2 * p)

\* C2: after N appends to a default-constructed Vector its size is N and its
\* capacity is 0 for N = 0 and else the smallest power of two >= N; and the
\* capacity changes only in an append made at size = capacity, from 0 to 1
\* and else to its double.
C2_Doubling ==
  /\ [](/\ vec[1].size_ = appends
        /\ vec[1].data_.capacity_ = IF appends = 0 THEN 0 ELSE Pow2Ceil(appends, 1))
  /\ [][vec'[1].data_.capacity_ # vec[1].data_.capacity_ =>
          /\ last'.op = "PushBack" /\ Returned'
          /\ vec[1].size_ = vec[1].data_.capacity_
          /\ vec'[1].data_.capacity_ =
               IF vec[1].data_.capacity_ = 0 THEN 1 ELSE 2 * vec[1].data_.capacity_]_vars

\* C2 witness: five appends have returned and the capacity is 8.
C2_Witness == appends = 5 /\ vec[1].size_ = 5 /\ vec[1].data_.capacity_ = 8

\* C3: an Insert/Emplace at offset i that returns makes the Vector one
\* longer, with the new value at i, the elements before i where they were and
\* those from i on one place further, and returns begin() + i.
C3_Insert ==
  [][(last'.op \in {"Insert", "PushBack"} /\ Returned') =>
       /\ ContentAfter(last'.v) = InsertAt(Content(last'.v), last'.i, last'.x)
       /\ last'.ret = <<vec'[last'.v].data_.buffer_, last'.i>>]_vars

\* C3 witness: an insertion before the second of three elements, done in
\* place (the capacity was 4), has returned.
C3_Witness ==
  /\ last.op = "Insert" /\ Returned /\ last.i = 1 /\ last.alloc = 0
  /\ vec[last.v].size_ = 4 /\ Content(last.v)[2] = last.x

\* An insertion in the middle of a full Vector (growing path) has returned.
C3_WitnessGrow ==
  /\ last.op = "Insert" /\ Returned /\ last.i = 1 /\ last.alloc = 1
  /\ vec[last.v].size_ = 3 /\ Content(last.v)[2] = last.x

\* C4: an Erase at offset i makes the Vector one shorter, with the elements
\* before i where they were and those after i one place nearer the front;
\* the capacity and the block stay, exactly one element is destroyed (the
\* slot vacated at the end), and begin() + i is returned.
C4_Erase ==
  [][(last'.op = "Erase" /\ Returned') =>
       /\ ContentAfter(last'.v) = RemoveAt(Content(last'.v), last'.i)
       /\ vec'[last'.v].data_.capacity_ = vec[last'.v].data_.capacity_
       /\ SameBlock(last'.v)
       /\ last'.dtor = 1 /\ last'.ctor = 0 /\ last'.alloc = 0 /\ last'.free = 0
       /\ SlotsAfter(last'.v)[vec[last'.v].size_] = Dead
       /\ last'.ret = <<vec'[last'.v].data_.buffer_, last'.i>>]_vars

\* C4 witness: the second of three elements has been erased.
C4_Witness ==
  /\ last.op = "Erase" /\ Returned /\ last.i = 1 /\ vec[last.v].size_ = 2

\* C5 (as claimed): a copy-assignment A = B that returns leaves A with B's
\* length and B's elements, and B as it was, whichever path it takes.
C5_CopyAssign ==
  [][(last'.op = "CopyAssign" /\ Returned') =>
       /\ ContentAfter(last'.v) = Content(last'.o)
       /\ Untouched(last'.o) \/ last'.o = last'.v]_vars

\* C6 (as claimed): after B = std::move(A), A and B distinct, B has A's
\* block, length and contents, A is empty, and no element was constructed or
\* destroyed.
C6_MoveAssignAsClaimed ==
  [][(last'.op = "MoveAssign" /\ last'.v # last'.o) =>
       /\ Took(last'.v, last'.o)
       /\ vec'[last'.o].size_ = 0
       /\ NothingMade]_vars

\* C6 (amended): after B = std::move(A), A and B distinct, B has A's block,
\* length and contents and A has those B had (it is empty only if B was), and
\* no element was constructed or destroyed.
C6_MoveAssign ==
  [][(last'.op = "MoveAssign" /\ last'.v # last'.o) =>
       /\ Took(last'.v, last'.o)
       /\ Took(last'.o, last'.v)
       /\ NothingMade]_vars

\* C6 witness: a move-assignment between two Vectors that both held
\* elements has happened.
C6_Witness ==
  /\ last.op = "MoveAssign" /\ last.v # last.o
  /\ vec[last.v].size_ > 0 /\ vec[last.o].size_ > 0

\* C7: move-construction of B from A gives B the block, length, capacity and
\* contents A had, leaves A with length 0 and capacity 0, and constructs or
\* destroys no element.
C7_MoveCtor ==
  [][last'.op = "VectorMove" =>
       /\ vec'[last'.v].alive
       /\ Took(last'.v, last'.o)
       /\ vec'[last'.o].size_ = 0
       /\ vec'[last'.o].data_ = EmptyRaw
       /\ NothingMade]_vars

\* C7 witness: a Vector has been move-constructed from one holding elements.
C7_Witness == last.op = "VectorMove" /\ vec[last.v].size_ > 0

\* The operations that change the Vector they are called on and take no
\* other Vector.
MutatingOps ==
  {"PushBack", "Insert", "Erase", "PopBack", "Resize", "Reserve", "SetAt", "Dtor"}

\* C8: copy-construction of B from A gives B A's length as its length and
\* its capacity, A's elements, and a block that is not A's, and leaves A as it
\* was; and an operation on one Vector that takes no other Vector leaves
\* every other Vector as it was.
C8_CopyIndependent ==
  [][/\ (last'.op = "VectorCopy" /\ Returned') =>
          /\ vec'[last'.v].alive
          /\ vec'[last'.v].size_ = vec[last'.o].size_
          /\ vec'[last'.v].data_.capacity_ = vec[last'.o].size_
          /\ ContentAfter(last'.v) = Content(last'.o)
          /\ vec'[last'.v].data_.buffer_ # 0 =>
                /\ vec'[last'.v].data_.buffer_ # vec'[last'.o].data_.buffer_
                /\ last'.from[last'.v] = Fresh
          /\ Untouched(last'.o)
     /\ last'.op \in MutatingOps =>
          \A a \in VecIds \ {last'.v} : Alive(a) => (vec'[a].alive /\ Untouched(a))]_vars

\* C8 witness: a Vector of two elements has been copy-constructed.
C8_Witness ==
  /\ last.op = "VectorCopy" /\ Returned /\ vec[last.v].size_ = 2
  /\ vec[last.o].size_ = 2

\* An insertion into one Vector has returned while another holds two
\* elements.
C8_WitnessFrame ==
  /\ last.op = "Insert" /\ Returned
  /\ \E a \in VecIds \ {last.v} : Alive(a) /\ vec[a].size_ = 2

\* C9 (as claimed): when an element constructor throws in an Emplace /
\* Insert / PushBack called at size = capacity, the Vector has the length,
\* capacity, block and elements it had before the call.
C9_StrongAsClaimed ==
  [][(/\ last'.op \in {"Insert", "PushBack"} /\ last'.exc = "elem"
      /\ vec[last'.v].size_ = vec[last'.v].data_.capacity_) =>
       Untouched(last'.v)]_vars

\* C9 (amended): in that case the Vector has the length, capacity and block
\* it had; its elements are as before the call when T is copyable or when
\* it was the construction of the new element that threw (for a move-only T
\* whose move constructor throws during relocation, the elements relocated
\* before the throw are left moved-from).
C9_Strong ==
  [][(/\ last'.op \in {"Insert", "PushBack"} /\ last'.exc = "elem"
      /\ vec[last'.v].size_ = vec[last'.v].data_.capacity_) =>
       /\ vec'[last'.v].size_ = vec[last'.v].size_
       /\ vec'[last'.v].data_.capacity_ = vec[last'.v].data_.capacity_
       /\ SameBlock(last'.v)
       /\ (traits.copyable \/ last'.phase = "new") => Untouched(last'.v)]_vars

\* C9 witness: the relocation of the elements after the insertion point
\* threw in an insertion in the middle of a full Vector of copyable elements.
C9_Witness ==
  /\ last.op = "Insert" /\ last.exc = "elem" /\ last.phase = "suffix"
  /\ traits.copyable
  /\ vec[last.v].size_ = 2 /\ vec[last.v].data_.capacity_ = 2

\* C10: Reserve(n) with n <= capacity changes nothing and allocates,
\* constructs and destroys nothing; Reserve(n) with n > capacity that returns
\* gives capacity n in a new block, the same length and elements, the old
\* elements destroyed and the old block released.
C10_Reserve ==
  [][(last'.op = "Reserve" /\ Returned') =>
       IF last'.i <= vec[last'.v].data_.capacity_
       THEN Untouched(last'.v) /\ NothingMade
       ELSE /\ vec'[last'.v].data_.capacity_ = last'.i
            /\ last'.from[last'.v] = Fresh
            /\ Len(SlotsAfter(last'.v)) = last'.i
            /\ vec'[last'.v].size_ = vec[last'.v].size_
            /\ ContentAfter(last'.v) = Content(last'.v)
            /\ last'.alloc = 1
            /\ last'.dtor = vec[last'.v].size_
            /\ last'.free = IF vec[last'.v].data_.buffer_ = 0 THEN 0 ELSE 1
            /\ HeapUsed(heap') = HeapUsed(heap) - vec[last'.v].data_.capacity_ + last'.i
            /\ "destroy_dead" \notin last'.err]_vars

\* C10 witness: a Vector of two elements and capacity 2 has reserved 3.
C10_Witness ==
  /\ last.op = "Reserve" /\ Returned /\ last.i = 3 /\ last.free = 1
  /\ vec[last.v].size_ = 2 /\ vec[last.v].data_.capacity_ = 3

MaxOf(a, b) == IF a >= b THEN a ELSE b

\* C11: a Resize(n) that returns gives length n and keeps the elements below
\* min(n, old length); for n > old length the new elements hold T() and the
\* capacity is max(old capacity, n); for n <= old length the capacity and the
\* block stay and exactly the old length - n trailing elements are destroyed.
C11_Resize ==
  [][(last'.op = "Resize" /\ Returned') =>
       LET v   == last'.v
           n   == last'.i
           old == vec[v].size_
       IN /\ vec'[v].size_ = n
          /\ \A k \in 1..(IF n < old THEN n ELSE old) : ContentAfter(v)[k] = Content(v)[k]
          /\ n > old =>
                /\ \A k \in (old + 1)..n : ContentAfter(v)[k] = DefaultVal
                /\ vec'[v].data_.capacity_ = MaxOf(vec[v].data_.capacity_, n)
                /\ Len(SlotsAfter(v)) = vec'[v].data_.capacity_
          /\ n <= old =>
                /\ vec'[v].data_.capacity_ = vec[v].data_.capacity_
                /\ SameBlock(v)
                /\ last'.dtor = old - n /\ last'.ctor = 0 /\ last'.alloc = 0
                /\ \A k \in (n + 1)..old : SlotsAfter(v)[k] = Dead
                /\ "destroy_dead" \notin last'.err]_vars

\* C11 witness: a Vector of one element has been resized to 3 in a new
\* block (one element relocated, two value-constructed).
C11_Witness ==
  /\ last.op = "Resize" /\ Returned /\ last.i = 3 /\ last.alloc = 1
  /\ last.ctor = 3 /\ last.dtor = 1 /\ vec[last.v].size_ = 3

\* A Vector of three elements has been resized to 1.
C11_WitnessShrink ==
  /\ last.op = "Resize" /\ Returned /\ last.i = 1 /\ last.dtor = 2
  /\ vec[last.v].size_ = 1 /\ vec[last.v].data_.capacity_ >= 3

\* The calls C12 is about, seen from the state they leave: an element copy or
\* move threw in a Reserve (which relocates only when n > capacity) or in a
\* copy-assignment whose source is longer than the target's capacity.
RelocationFailed ==
  /\ last'.exc = "elem"
  /\ \/ last'.op = "Reserve"
     \/ /\ last'.op = "CopyAssign" /\ last'.v # last'.o
        /\ vec[last'.o].size_ > vec[last'.v].data_.capacity_

\* C12 (as claimed): after such a failure the target has the length,
\* capacity, block and elements it had, none of them destroyed.
C12_StrongAsClaimed == [][RelocationFailed => Untouched(last'.v)]_vars

\* C12 (amended): after such a failure the target has the length, capacity
\* and block it had and none of its elements has been destroyed; the elements
\* hold what they held when T is copyable (a move-only T whose move
\* constructor throws in Reserve leaves the elements moved before the throw
\* in their moved-from state).
C12_Strong ==
  [][RelocationFailed =>
       LET v == last'.v
       IN /\ vec'[v].size_ = vec[v].size_
          /\ vec'[v].data_.capacity_ = vec[v].data_.capacity_
          /\ SameBlock(v)
          /\ Len(SlotsAfter(v)) = Len(Slots(v))
          /\ \A k \in 1..Len(Slots(v)) : (SlotsAfter(v)[k] = Dead) <=> (Slots(v)[k] = Dead)
          /\ traits.copyable => Untouched(v)
          /\ last'.dtor = last'.ctor /\ last'.alloc = 1 /\ last'.free = 1
          /\ HeapUsed(heap') = HeapUsed(heap)]_vars

\* C12 witness: the copy of the second element threw in a copy-assignment
\* of a longer Vector to one that holds an element.
C12_Witness ==
  /\ last.op = "CopyAssign" /\ last.exc = "elem" /\ last.alloc = 1 /\ last.ctor = 1
  /\ vec[last.v].size_ = 1 /\ vec[last.v].data_.capacity_ = 1 /\ vec[last.o].size_ = 2

\* The relocation of the second element threw in a Reserve.
C12_WitnessReserve ==
  /\ last.op = "Reserve" /\ last.exc = "elem" /\ last.ctor = 1 /\ last.dtor = 1
  /\ vec[last.v].size_ = 2

\* The operations that allocate for a Vector that exists.
AllocatingOps == {"Reserve", "Resize", "PushBack", "Insert", "CopyAssign"}

\* C13: when the allocation fails in an operation on an existing Vector, the
\* allocation was the first step the operation took: nothing was constructed,
\* moved, copied, destroyed or released before it, and the Vector (and the
\* source of a copy-assignment) has the length, capacity, block and slots it
\* had.
C13_AllocFirst ==
  [][(last'.op \in AllocatingOps /\ last'.exc = "alloc") =>
       /\ last'.steps = <<"alloc">>
       /\ last'.ctor = 0 /\ last'.dtor = 0 /\ last'.moves = 0 /\ last'.copies = 0
       /\ last'.alloc = 0 /\ last'.free = 0
       /\ \A a \in VecIds : Alive(a) => (vec'[a].alive /\ Untouched(a))
       /\ heap' = heap]_vars

\* C13 witness: the allocation failed in an insertion into a full Vector of
\* two elements.
C13_Witness ==
  /\ last.op = "Insert" /\ last.exc = "alloc"
  /\ vec[last.v].size_ = 2 /\ vec[last.v].data_.capacity_ = 2

\* The allocation failed in a Resize, in a Reserve, in a copy-assignment.
C13_WitnessResize == last.op = "Resize" /\ last.exc = "alloc" /\ vec[last.v].size_ > 0

C13_WitnessReserve == last.op = "Reserve" /\ last.exc = "alloc" /\ vec[last.v].size_ > 0

C13_WitnessAssign == last.op = "CopyAssign" /\ last.exc = "alloc" /\ vec[last.v].size_ > 0

\* The blocks that are allocated.
Allocated(h) == {b \in BlockIds : h[b] # <<>>}

\* C14: no two Vectors own the same block; Swap exchanges the blocks,
\* capacities and lengths of its two Vectors, touches no other Vector and
\* constructs, destroys, allocates and releases nothing; every operation
\* leaves allocated exactly the blocks that were, plus those it allocated,
\* minus those it released, and releases none twice; and once every Vector
\* is destroyed no block is allocated.
C14_Ownership ==
  /\ [](\A v \in VecIds, w \in VecIds :
          (v # w /\ Alive(v) /\ Alive(w) /\ vec[v].data_.buffer_ # 0) =>
             vec[v].data_.buffer_ # vec[w].data_.buffer_)
  /\ []((\A v \in VecIds : ~Alive(v)) => Allocated(heap) = {})
  /\ [][/\ "double_free" \notin last'.err
         /\ Cardinality(Allocated(heap')) =
              Cardinality(Allocated(heap)) + last'.alloc - last'.free
         /\ last'.op = "Swap" =>
              /\ NothingMade
              /\ IF last'.v = last'.o THEN Untouched(last'.v)
                 ELSE Took(last'.v, last'.o) /\ Took(last'.o, last'.v)
              /\ \A a \in VecIds \ {last'.v, last'.o} : Alive(a) => Untouched(a)]_vars

\* C14 witness: the last Vector, holding two elements, has been destroyed and
\* its block released, and no Vector exists any more.
C14_Witness ==
  /\ last.op = "Dtor" /\ last.free = 1 /\ last.dtor = 2
  /\ \A v \in VecIds : ~Alive(v)

\* Two Vectors holding one and two elements have been swapped.
C14_WitnessSwap ==
  /\ last.op = "Swap" /\ last.v # last.o
  /\ vec[last.v].size_ = 1 /\ vec[last.o].size_ = 2

\* C15: a PushBack / EmplaceBack that returns, called at size < capacity,
\* keeps the block and the capacity, allocates nothing and leaves the
\* elements [0, old size) in their slots, neither moved nor copied; called at
\* size = capacity it leaves the Vector in a newly allocated block.
C15_AppendInPlace ==
  [][(last'.op = "PushBack" /\ Returned') =>
       LET v == last'.v
       IN IF vec[v].size_ < vec[v].data_.capacity_
          THEN /\ SameBlock(v)
               /\ vec'[v].data_.capacity_ = vec[v].data_.capacity_
               /\ \A k \in 1..vec[v].size_ : SlotsAfter(v)[k] = Slots(v)[k]
               /\ last'.alloc = 0 /\ last'.free = 0
               /\ last'.moves = 0 /\ last'.copies = 0 /\ last'.dtor = 0
               /\ last'.ret = <<vec'[v].data_.buffer_, vec[v].size_>>
          ELSE /\ last'.from[v] = Fresh
               /\ last'.alloc = 1
               /\ last'.moves + last'.copies = vec[v].size_
               /\ ContentAfter(v) = InsertAt(Content(v), vec[v].size_, last'.x)]_vars

\* C15 witness: an append to a Vector of two elements and capacity 4 has
\* returned.
C15_Witness ==
  /\ last.op = "PushBack" /\ Returned /\ last.alloc = 0
  /\ vec[last.v].size_ = 3 /\ vec[last.v].data_.capacity_ = 4

\* An append to a full Vector of two elements has returned.
C15_WitnessGrow ==
  /\ last.op = "PushBack" /\ Returned /\ last.alloc = 1
  /\ vec[last.v].size_ = 3 /\ vec[last.v].data_.capacity_ = 4

IsPrefix(p, q) == Len(p) <= Len(q) /\ \A k \in 1..Len(p) : p[k] = q[k]

\* The steps of a growing Emplace, in the order of the claim (the suffix is
\* relocated only when the insertion point is not the end).
GrowSteps(atEnd) ==
  IF atEnd THEN <<"alloc", "new", "prefix", "destroy", "adopt">>
  ELSE <<"alloc", "new", "prefix", "suffix", "destroy", "adopt">>

\* C16: an Emplace / Insert / PushBack called at size = capacity that returns
\* has taken the steps allocate, construct the new element, relocate the
\* prefix, relocate the suffix, destroy the originals, adopt the new block, in
\* this order, constructing size + 1 elements and destroying size.  One that
\* throws has taken these steps in this order up to the one that threw, which
\* is neither the destruction nor the adoption: the Vector still has its
\* block, with every original element alive; nothing was constructed or
\* relocated when the allocation or the construction of the new element
\* threw, and the new element had been constructed when a relocation threw.
C16_GrowOrder ==
  [][(/\ last'.op \in {"Insert", "PushBack"}
      /\ vec[last'.v].size_ = vec[last'.v].data_.capacity_) =>
       LET v    == last'.v
           size == vec[v].size_
       IN IF Returned'
          THEN /\ last'.steps = GrowSteps(last'.i = size)
               /\ last'.ctor = size + 1 /\ last'.dtor = size
               /\ last'.moves + last'.copies = size
               /\ last'.from[v] = Fresh
          ELSE /\ IsPrefix(last'.steps, <<"alloc", "new", "prefix", "suffix">>)
               /\ last'.steps # <<>> /\ last'.steps[Len(last'.steps)] = last'.phase
               /\ SameBlock(v)
               /\ vec'[v].size_ = size /\ vec'[v].data_.capacity_ = size
               /\ \A k \in 1..size : (Slots(v)[k] # Dead) => (SlotsAfter(v)[k] # Dead)
               /\ last'.dtor = last'.ctor
               /\ last'.phase \in {"alloc", "new"} =>
                     /\ last'.ctor = 0 /\ last'.moves + last'.copies = 0
                     /\ Untouched(v)
               /\ last'.phase \in {"prefix", "suffix"} =>
                     last'.ctor = 1 + last'.moves + last'.copies]_vars

\* C16 witness: an insertion in the middle of a full Vector of two elements
\* has returned, having relocated one element before and one after the new.
C16_Witness ==
  /\ last.op = "Insert" /\ Returned /\ last.i = 1
  /\ last.steps = GrowSteps(FALSE) /\ last.ctor = 3 /\ last.dtor = 2

\* The relocation of the suffix threw after that of the prefix.
C16_WitnessThrow ==
  /\ last.op = "Insert" /\ last.exc = "elem" /\ last.phase = "suffix"
  /\ last.steps = <<"alloc", "new", "prefix", "suffix">> /\ last.ctor = 2

\* C17: when the relocation of the prefix or of the suffix throws in a
\* growing Emplace, every element constructed in the new block has been
\* destroyed, none of them twice, and the new block released with no element
\* left in it: the heap holds the blocks it held, with the elements they
\* held alive, and nothing else.
C17_GrowCleanup ==
  [][(/\ last'.op \in {"Insert", "PushBack"} /\ last'.exc = "elem"
      /\ last'.phase \in {"prefix", "suffix"}
      /\ vec[last'.v].size_ = vec[last'.v].data_.capacity_) =>
       /\ last'.ctor >= 1 /\ last'.dtor = last'.ctor
       /\ last'.err \cap {"destroy_dead", "orphan", "double_free", "out_of_bounds"} = {}
       /\ last'.alloc = 1 /\ last'.free = 1
       /\ Cardinality(Allocated(heap')) = Cardinality(Allocated(heap))
       /\ HeapUsed(heap') = HeapUsed(heap)
       /\ SameBlock(last'.v)
       /\ \A b \in BlockIds : b # vec'[last'.v].data_.buffer_ => heap'[b] = <<>>
       /\ \A k \in 1..Len(Slots(last'.v)) :
             (SlotsAfter(last'.v)[k] # Dead) <=> (Slots(last'.v)[k] # Dead)]_vars

\* C17 witness: in an insertion at the front of a full Vector of two
\* elements the relocation of the second element of the suffix threw, after
\* the new element and the first of the suffix were constructed.
C17_Witness ==
  /\ last.op = "Insert" /\ last.exc = "elem" /\ last.phase = "suffix"
  /\ last.steps = <<"alloc", "new", "prefix", "suffix">>
  /\ last.ctor = 2 /\ last.dtor = 2 /\ last.moves + last.copies = 1
  /\ vec[last.v].size_ = 2 /\ vec[last.v].data_.capacity_ = 2

\* The relocation of the prefix threw.
C17_WitnessPrefix ==
  /\ last.op = "Insert" /\ last.exc = "elem" /\ last.phase = "prefix"
  /\ last.ctor = 2 /\ last.dtor = 2

\* The operation relocated, or began to relocate, the elements into a new
\* block: a Reserve or a Resize that allocated, an Emplace at size = capacity.
Relocating ==
  /\ last'.alloc = 1
  /\ \/ last'.op \in {"Reserve", "Resize"}
     \/ /\ last'.op \in {"Insert", "PushBack"}
        /\ vec[last'.v].size_ = vec[last'.v].data_.capacity_

\* C18: a relocation constructs the elements by T(T &&) when T's move
\* constructor is noexcept or T has no copy constructor, and by T(const T &)
\* otherwise: all of them when the operation returns, and none the other
\* way.  For a copyable T whose move may throw, a relocation that throws
\* leaves the elements as they were.
C18_MoveOrCopy ==
  [][Relocating =>
       LET size == vec[last'.v].size_
       IN /\ IF traits.nothrowMove \/ ~traits.copyable
             THEN last'.copies = 0 /\ (Returned' => last'.moves = size)
             ELSE last'.moves = 0 /\ (Returned' => last'.copies = size)
          /\ (/\ traits.copyable /\ ~traits.nothrowMove /\ last'.exc = "elem"
              /\ last'.phase \in {"relocate", "prefix", "suffix"}) =>
                Untouched(last'.v)
          /\ traits.nothrowMove =>
                ~(last'.exc = "elem" /\ last'.phase \in {"relocate", "prefix", "suffix"})]_vars

\* C18 witness: a Reserve has relocated two elements of a move-only T whose
\* move constructor may throw, by moving them.
C18_Witness ==
  /\ last.op = "Reserve" /\ Returned /\ last.alloc = 1 /\ last.moves = 2
  /\ ~traits.copyable /\ ~traits.nothrowMove

\* The same for a move-only T with a noexcept move, for a copyable T with a
\* noexcept move (moved), and for a copyable T whose move may throw (copied).
C18_WitnessMoveOnlyNothrow ==
  /\ last.op = "Reserve" /\ Returned /\ last.alloc = 1 /\ last.moves = 2
  /\ ~traits.copyable /\ traits.nothrowMove

C18_WitnessNothrow ==
  /\ last.op = "Insert" /\ Returned /\ last.alloc = 1 /\ last.moves = 2
  /\ traits.copyable /\ traits.nothrowMove

C18_WitnessCopy ==
  /\ last.op = "Insert" /\ Returned /\ last.alloc = 1 /\ last.copies = 2
  /\ traits.copyable /\ ~traits.nothrowMove

\* The reuse path of the copy assignment (vector.h:120-131) threw.
ReusePathFailed ==
  /\ last'.op = "CopyAssign" /\ last'.exc = "elem" /\ last'.v # last'.o
  /\ vec[last'.o].size_ <= vec[last'.v].data_.capacity_

\* The in-place branch of Emplace (vector.h:240-249) threw.
InPlaceFailed ==
  /\ last'.op = "Insert" /\ last'.exc = "elem"
  /\ vec[last'.v].size_ < vec[last'.v].data_.capacity_

\* C19: when a constructor or an assignment of T throws in the reuse path of
\* the copy assignment or in the in-place branch of Emplace, the Vectors are
\* left well formed: 0 <= size_ <= Capacity(), the slots [0, size_) hold an
\* element and no slot of [size_, Capacity()) holds one.
C19_BasicInPlace ==
  [][(WellFormed /\ (ReusePathFailed \/ InPlaceFailed)) => WellFormed']_vars

\* The part of C19 that is about the copy assignment alone.
C19_ReusePath ==
  [][(WellFormed /\ ReusePathFailed) => WellFormed']_vars

\* An in-place Emplace before end() threw after new(end()) T(std::move(...))
\* (vector.h:245): slot size_ holds an element and size_ does not count it.
C19_Leaked ==
  /\ last.op = "Insert" /\ last.exc = "elem" /\ last.phase \in {"shift", "store"}
  /\ last.err = {}
  /\ vec[last.v].size_ < vec[last.v].data_.capacity_
  /\ Slots(last.v)[vec[last.v].size_ + 1] # Dead

\* C20: Insert(begin() + i, v[k]) and PushBack(v[k]) that return leave the
\* elements v held with the value v[k] had before the call put in at index
\* i, and return begin() + i; with size_ < Capacity() they allocate nothing
\* and keep the block, with size_ = Capacity() they allocate one block; no
\* value is read from a slot without an element.
C20_SelfInsert ==
  [][(last'.op = "InsertSelf" /\ Returned') =>
       LET v == last'.v
       IN /\ ContentAfter(v) = InsertAt(Content(v), last'.i, Content(v)[last'.x + 1])
          /\ last'.ret = <<vec'[v].data_.buffer_, last'.i>>
          /\ "uninit_read" \notin last'.err
          /\ IF vec[v].size_ < vec[v].data_.capacity_
             THEN last'.alloc = 0 /\ SameBlock(v)
             ELSE last'.alloc = 1 /\ last'.from[v] = Fresh]_vars

\* C20 witness: v = [0, 1] with room for a third element, Insert(begin(),
\* v[1]) has returned and v = [1, 0, 1]; the element referred to lay in the
\* range that was shifted.
C20_Witness ==
  /\ last.op = "InsertSelf" /\ Returned /\ last.i = 0 /\ last.x = 1
  /\ last.alloc = 0 /\ Content(last.v) = <<1, 0, 1>>

\* The same with size_ = Capacity(), and PushBack(v[0]) in place.
C20_WitnessGrow ==
  /\ last.op = "InsertSelf" /\ Returned /\ last.i = 0 /\ last.x = 1
  /\ last.alloc = 1 /\ Content(last.v) = <<1, 0, 1>>

C20_WitnessPushBack ==
  /\ last.op = "InsertSelf" /\ Returned /\ last.i = 2 /\ last.x = 0
  /\ last.alloc = 0 /\ Content(last.v) = <<1, 0, 1>>
====
